---- MODULE Spec2Model ----
(***************************************************************************)
(* Model of generator.py: the tokenizer (tokenize), the model builder      *)
(* (build_sets), the generator (respond) and the interactive session       *)
(* (main).  Strings are sequences of one-character strings, so that case   *)
(* folding, stripping, splitting and joining are computed, not assumed.    *)
(* Python indices (0-based) are kept in the variables that carry them (i,  *)
(* sentence_indices); the +1 shift appears where a sequence is indexed.    *)
(***************************************************************************)
EXTENDS Integers, Sequences, FiniteSets, TLC

VARIABLES
    pc,               \* position of the program
    text,             \* tokenize: the raw text argument
    tokens,           \* main: accumulated tokens / build_sets: argument / tokenize: result
    titles,           \* main: accumulated titles / tokenize: result
    sets,             \* main: accumulated table / build_sets: table under construction
    length,           \* build_sets: phrase length argument
    i,                \* build_sets: loop index (0-based)
    key,              \* build_sets: the key most recently built
    argv,             \* main: file arguments not yet processed
    choice,           \* main: last menu choice
    sources,          \* history: token list of every source merged since the last reset
    prompt,           \* respond: prompt argument
    count,            \* caller's sentence count
    sent_breaks,      \* respond: line break mode
    rnd,              \* the random source behind random.choice
    keys,             \* sets.keys(): the iteration order of the table
    key_len,          \* respond: key arity read off the first key
    res_list,         \* respond: running output tokens
    sentence_length,  \* respond: tokens counted in the current sentence
    sentences,        \* respond: sentences still to produce
    sentence_indices, \* respond: 0-based index of the last token of each sentence
    response          \* respond: returned text

vars == <<pc, text, tokens, titles, sets, length, i, key, argv, choice, sources,
          prompt, count, sent_breaks, rnd, keys, key_len, res_list,
          sentence_length, sentences, sentence_indices, response>>

mainVars == <<argv, choice, sources>>
respVars == <<prompt, count, sent_breaks, rnd, keys, key_len, res_list,
              sentence_length, sentences, sentence_indices, response>>

----------------------------------------------------------------------------
(* Bounds *)

MaxWords == 2        \* words per generated tokenizer input
MaxLen == 4          \* tokens per generated build_sets input
MaxOrder == 3        \* largest phrase length tried
MaxArgs == 2         \* file arguments on the command line
MaxSources == 2      \* sources merged between two resets
MaxSentences == 2    \* largest sentence count requested
MaxTokens == 120 * MaxSentences + 5   \* cut-off of a generation that never ends

----------------------------------------------------------------------------
(* Characters and strings *)

UpperSeq == <<"A", "B", "C", "D", "E", "F", "G", "H", "I", "J", "K", "L", "M",
              "N", "O", "P", "Q", "R", "S", "T", "U", "V", "W", "X", "Y", "Z">>
LowerSeq == <<"a", "b", "c", "d", "e", "f", "g", "h", "i", "j", "k", "l", "m",
              "n", "o", "p", "q", "r", "s", "t", "u", "v", "w", "x", "y", "z">>

Range(s) == {s[n] : n \in DOMAIN s}

Min(a, b) == IF a <= b THEN a ELSE b

isupper(c) == c \in Range(UpperSeq)
islower(c) == c \in Range(LowerSeq)
isalpha(c) == isupper(c) \/ islower(c)

lower(c) == IF isupper(c) THEN LowerSeq[CHOOSE n \in 1..26 : UpperSeq[n] = c] ELSE c
upper(c) == IF islower(c) THEN UpperSeq[CHOOSE n \in 1..26 : LowerSeq[n] = c] ELSE c

lowerStr(w) == [n \in 1..Len(w) |-> lower(w[n])]

\* str.capitalize(): first character upper-cased, the rest lower-cased
capitalize(w) == [n \in 1..Len(w) |-> IF n = 1 THEN upper(w[n]) ELSE lower(w[n])]

Whitespace == {" ", "\n", "\t"}

\* s.split('\n'): empty pieces are kept
RECURSIVE SplitLinesFrom(_, _, _, _)
SplitLinesFrom(s, p, cur, acc) ==
    IF p > Len(s) THEN Append(acc, cur)
    ELSE IF s[p] = "\n" THEN SplitLinesFrom(s, p + 1, <<>>, Append(acc, cur))
    ELSE SplitLinesFrom(s, p + 1, Append(cur, s[p]), acc)

SplitLines(s) == SplitLinesFrom(s, 1, <<>>, <<>>)

\* s.split(): runs of whitespace separate, empty pieces are dropped
RECURSIVE SplitFrom(_, _, _, _)
SplitFrom(s, p, cur, acc) ==
    LET acc2 == IF cur = <<>> THEN acc ELSE Append(acc, cur)
    IN  IF p > Len(s) THEN acc2
        ELSE IF s[p] \in Whitespace THEN SplitFrom(s, p + 1, <<>>, acc2)
        ELSE SplitFrom(s, p + 1, Append(cur, s[p]), acc)

split(s) == SplitFrom(s, 1, <<>>, <<>>)

\* sep.join(parts)
RECURSIVE join(_, _)
join(sep, parts) ==
    IF parts = <<>> THEN <<>>
    ELSE IF Len(parts) = 1 THEN parts[1]
    ELSE parts[1] \o sep \o join(sep, Tail(parts))

\* s.find(sub): 0-based index of the first occurrence, -1 when absent
find(s, sub) ==
    LET hits == {p \in 1..(Len(s) - Len(sub) + 1) : SubSeq(s, p, p + Len(sub) - 1) = sub}
    IN  IF hits = {} THEN -1 ELSE (CHOOSE p \in hits : \A q \in hits : p <= q) - 1

\* s[:n] with Python's meaning of a negative n
sliceTo(s, n) ==
    IF n >= 0 THEN SubSeq(s, 1, Min(n, Len(s))) ELSE SubSeq(s, 1, Len(s) + n)

----------------------------------------------------------------------------
(* tokenize *)

num_chars == {"0", "1", "2", "3", "4", "5", "6", "7", "8", "9"}
symbols == {".", "?", "!", ",", "'", "-"}
valid_chars == num_chars \cup symbols

InitNames == {<<"I">>}
InitTitles == {<<"M", "r", ".">>, <<"M", ".">>, <<"M", "r", "s", ".">>, <<"D", "r">>,
               <<"M", "s", ".">>, <<"R", "e", "p">>, <<"S", "e", "n", ".">>,
               <<"G", "e", "n", ".">>, <<"S", "t", ".">>}

\* ''.join([c for c in w if (c.isalpha() or c in valid_chars)])
strip(w) == SelectSeq(w, LAMBDA c : isalpha(c) \/ c \in valid_chars)

\* lines 72-81: prefix every line with a double quote, rejoin, split on whitespace
split_text(t) ==
    LET lines == SplitLines(t)
        quoted == [n \in 1..Len(lines) |-> <<"\"">> \o lines[n]]
    IN  split(join(<<" ">>, quoted))

\* lines 84-85: a word whose characters but the last are all upper case keeps its first only
foldCaps(w) ==
    IF \A n \in 1..(Len(w) - 1) : isupper(w[n])
    THEN <<w[1]>> \o lowerStr(SubSeq(w, 2, Len(w)))
    ELSE w

\* line 89
isTitle(w, names) ==
    /\ Len(w) < 4
    /\ w[Len(w)] = "."
    /\ Cardinality({n \in 1..Len(w) : w[n] = "."}) = 1
    /\ w \notin names
    /\ \E n \in 1..Len(w) : isalpha(w[n])

\* lines 97-98: the previous word ended a sentence and is not a title
afterSentenceEnd(prev, ttl) ==
    /\ prev[Len(prev)] \in {".", "!", "?", "\""}
    /\ prev \notin ttl

\* lines 111-115
defaultBranch(st, w) ==
    IF \E n \in 1..Len(w) : isalpha(w[n]) \/ w[n] \in num_chars
    THEN [st EXCEPT !.tokens = Append(@, lowerStr(strip(w)))]
    ELSE st

\* lines 100-104 and 106-110
nameBranch(st, w) ==
    [st EXCEPT !.tokens = Append(@, strip(w)), !.names = @ \cup {strip(w)}]

\* lines 82-115: the body of the loop for the word at 0-based position n
tokenizeWord(st, st_text, n) ==
    LET w == foldCaps(st_text[n + 1])
        st1 == IF isupper(w[1]) /\ isTitle(w, st.names)
               THEN [st EXCEPT !.titles = @ \cup {w}]
               ELSE st
    IN  IF isupper(w[1])
        THEN IF n # 0
             THEN IF w \in st1.names
                  THEN [st1 EXCEPT !.tokens = Append(@, w)]
                  ELSE IF ~afterSentenceEnd(st_text[n], st1.titles)
                       THEN nameBranch(st1, w)
                       ELSE defaultBranch(st1, w)
             ELSE nameBranch(st1, w)
        ELSE defaultBranch(st1, w)

RECURSIVE tokenizeFrom(_, _, _)
tokenizeFrom(st, st_text, n) ==
    IF n >= Len(st_text) THEN st
    ELSE tokenizeFrom(tokenizeWord(st, st_text, n), st_text, n + 1)

\* tokenize(text): a record of the tokens and the titles returned (and the names, local)
tokenize(t) ==
    tokenizeFrom([tokens |-> <<>>, names |-> InitNames, titles |-> InitTitles],
                 split_text(t), 0)

----------------------------------------------------------------------------
(* build_sets *)

EmptyDict == [k \in {} |-> <<>>]

\* sets[key] += [v] on a defaultdict(list)
dictAppend(d, k, v) ==
    IF k \in DOMAIN d THEN [d EXCEPT ![k] = Append(@, v)]
    ELSE [x \in DOMAIN d \cup {k} |-> IF x = k THEN <<v>> ELSE d[x]]

\* line 128 (the variant skips one position too many)
beforeFirstWindowMut(n, len) == n + 1 <= len
beforeFirstWindow(n, len) == n + 1 < len

\* line 131
atLastToken(n, token_length) == n + 1 = token_length

\* lines 134-135
buildKey(tk, n, len) ==
    [m \in 1..(len - 1) |-> tk[(n - m) + 1]] \o <<tk[n + 1]>>

RECURSIVE buildFrom(_, _, _, _)
buildFrom(d, tk, len, n) ==
    IF n >= Len(tk) THEN d
    ELSE IF beforeFirstWindow(n, len) THEN buildFrom(d, tk, len, n + 1)
    ELSE IF atLastToken(n, Len(tk)) THEN d
    ELSE buildFrom(dictAppend(d, buildKey(tk, n, len), tk[n + 2]), tk, len, n + 1)

\* build_sets(tokens, length)
build_sets(tk, len) == buildFrom(EmptyDict, tk, len, 0)

----------------------------------------------------------------------------
(* Values of the variables a specification does not use *)

NoCall ==
    /\ prompt = <<>> /\ count = 0 /\ sent_breaks = 1 /\ rnd = "uniform"
    /\ keys = <<>> /\ key_len = 0 /\ res_list = <<>> /\ sentence_length = 0
    /\ sentences = 0 /\ sentence_indices = <<>> /\ response = <<>>

----------------------------------------------------------------------------
(* Specification of the tokenizer: tokenize applied to a bounded set of texts *)

MrJonesText == <<"M", "r", ".", " ", "J", "o", "n", "e", "s", " ", "w", "e", "n", "t", " ",
                 "h", "o", "m", "e", ".", " ", "H", "e", " ", "w", "a", "s", " ",
                 "t", "i", "r", "e", "d", ".">>
DogText == <<"T", "h", "e", " ", "d", "o", "g", " ", "r", "a", "n", ".", " ",
             "T", "h", "e", " ", "d", "o", "g", " ", "s", "l", "e", "p", "t", ".">>
HelloMrText == <<"H", "e", "l", "l", "o", " ", "M", "r", ".", " ", "J", "o", "n", "e", "s">>
VerseText == <<"H", "e", " ", "s", "a", "w", "\n", "M", "r", ".", " ", "J", "o", "n", "e", "s">>

Vocab == {<<"M", "r", ".">>, <<"J", "o", "n", "e", "s">>, <<"w", "e", "n", "t">>,
          <<"H", "e">>, <<"H", "E", "L", "L", "O", ".">>, <<"I">>}
Seps == {" ", "\n"}

RECURSIVE TextsOfLen(_)
TextsOfLen(n) ==
    IF n = 1 THEN Vocab
    ELSE {t \o <<s>> \o w : t \in TextsOfLen(n - 1), s \in Seps, w \in Vocab}

TokTexts ==
    {MrJonesText, DogText, HelloMrText, VerseText}
        \cup UNION {TextsOfLen(n) : n \in 1..MaxWords}

InitTok ==
    /\ pc = "tokenize"
    /\ text \in TokTexts
    /\ tokens = <<>> /\ titles = {} /\ sets = EmptyDict
    /\ length = 0 /\ i = 0 /\ key = <<>>
    /\ argv = <<>> /\ choice = 0 /\ sources = <<>>
    /\ NoCall

\* tokens, titles = tokenize(text)
TokenizeCall ==
    /\ pc = "tokenize"
    /\ LET r == tokenize(text)
       IN  /\ tokens' = r.tokens
           /\ titles' = r.titles
    /\ pc' = "tokenized"
    /\ UNCHANGED <<text, sets, length, i, key, argv, choice, sources, respVars>>

NextTok == TokenizeCall

SpecTok == InitTok /\ [][NextTok]_vars

\* C5: a capitalized word that is not the first word of the text and whose
\* preceding word is a known title is emitted with its capitalization kept,
\* wherever the title stands; tokenizing "Mr. Jones went home. He was tired."
\* gives a title set with "Mr." and a token sequence with "Jones".
C5_NameAfterTitle ==
    pc = "tokenized" =>
        LET words == split(text)
        IN  \A n \in 2..Len(words) :
                (isupper(words[n][1]) /\ words[n - 1] \in titles) =>
                    strip(foldCaps(words[n])) \in Range(tokens)

----------------------------------------------------------------------------
(* Specification of the model builder: the loop of build_sets on bounded inputs *)

BuildTokens == {<<"a">>, <<"b">>, <<"c">>}

RECURSIVE SeqsUpTo(_, _)
SeqsUpTo(S, n) ==
    IF n = 0 THEN {<<>>}
    ELSE LET shorter == SeqsUpTo(S, n - 1)
         IN  shorter \cup {Append(t, x) : t \in {u \in shorter : Len(u) = n - 1}, x \in S}

InitBuild ==
    /\ pc = "build"
    /\ tokens \in SeqsUpTo(BuildTokens, MaxLen)
    /\ length \in 1..MaxOrder
    /\ sets = EmptyDict /\ i = 0 /\ key = <<>>
    /\ text = <<>> /\ titles = {}
    /\ argv = <<>> /\ choice = 0 /\ sources = <<>>
    /\ NoCall

\* line 128-129: continue while the first window is incomplete
BuildSkip ==
    /\ pc = "build"
    /\ i < Len(tokens)
    /\ beforeFirstWindow(i, length)
    /\ i' = i + 1
    /\ UNCHANGED <<pc, text, tokens, titles, sets, length, key, mainVars, respVars>>

\* line 137: one successor recorded under the key ending at position i
BuildAppend ==
    /\ pc = "build"
    /\ i < Len(tokens)
    /\ ~beforeFirstWindow(i, length)
    /\ ~atLastToken(i, Len(tokens))
    /\ key' = buildKey(tokens, i, length)
    /\ sets' = dictAppend(sets, key', tokens[i + 2])
    /\ i' = i + 1
    /\ UNCHANGED <<pc, text, tokens, titles, length, mainVars, respVars>>

\* lines 131-132 and 139: break at the last token (or the loop runs out), return
BuildReturn ==
    /\ pc = "build"
    /\ \/ i >= Len(tokens)
       \/ /\ i < Len(tokens)
          /\ ~beforeFirstWindow(i, length)
          /\ atLastToken(i, Len(tokens))
    /\ pc' = "built"
    /\ UNCHANGED <<text, tokens, titles, sets, length, i, key, mainVars, respVars>>

NextBuild == BuildSkip \/ BuildAppend \/ BuildReturn

SpecBuild == InitBuild /\ [][NextBuild]_vars

RECURSIVE TotalOver(_, _)
TotalOver(d, ks) ==
    IF ks = {} THEN 0
    ELSE LET k == CHOOSE x \in ks : TRUE
         IN  Len(d[k]) + TotalOver(d, ks \ {k})

\* number of successor entries held by a table
TotalEntries(d) == TotalOver(d, DOMAIN d)

\* C3: every key build_sets produces is the window of `length` consecutive
\* tokens ending at the position just processed, in their original order, and
\* the value appended under it is the token that follows the window.
C3_KeyIsWindow ==
    (pc \in {"build", "built"} /\ key # <<>>) =>
        /\ Len(key) = length
        /\ key = SubSeq(tokens, i - length + 1, i)
        /\ sets[key][Len(sets[key])] = tokens[i + 1]

\* C8: for 1 <= length <= len(tokens), build_sets records exactly one successor
\* for each position from length-1 to len(tokens)-2 and none for the last
\* position, so the table ends with len(tokens) - length entries.
C8_OneEntryPerPosition ==
    (pc \in {"build", "built"} /\ length >= 1 /\ length <= Len(tokens)) =>
        /\ TotalEntries(sets) =
               Cardinality({n \in (length - 1)..(Len(tokens) - 2) : n < i})
        /\ pc = "built" => TotalEntries(sets) = Len(tokens) - length
        /\ key # <<>> => i - 1 <= Len(tokens) - 2

C8_Witness ==
    /\ pc = "built"
    /\ length = 2
    /\ Len(tokens) = 4
    /\ TotalEntries(sets) = 2
    /\ Cardinality(DOMAIN sets) = 1

----------------------------------------------------------------------------
(* respond *)

SentenceCap == 120

ItIs == <<"I", "t", " ", "i", "s">>
ItWas == <<"I", "t", " ", "w", "a", "s">>

\* random.choice(list): the outcomes the random source can give; "first" is
\* the source that always returns list[0], "uniform" may return any element
choose(list) == IF rnd = "first" THEN {list[1]} ELSE Range(list)

\* str(key): the text Python prints for a tuple of unicode strings
tupleStr(k) ==
    LET items == [n \in 1..Len(k) |-> <<"u", "'">> \o k[n] \o <<"'">>]
    IN  <<"(">> \o join(<<",", " ">>, items)
              \o (IF Len(k) = 1 THEN <<",", ")">> ELSE <<")">>)

\* line 203: len(str(sets.keys()[0]).split())
keyLenOf(ks) == Len(split(tupleStr(ks[1])))

\* line 204: ' '.join(tuple(prompt.split())[:key_len]).split()
seedWords(p, kl) == split(join(<<" ">>, sliceTo(split(p), kl)))

\* res_list[-key_len:]
lastN(rl, kl) == SubSeq(rl, IF Len(rl) > kl THEN Len(rl) - kl + 1 ELSE 1, Len(rl))

\* line 216: all(c.isupper() for c in word if c.isalpha())
allCaps(w) == \A n \in 1..Len(w) : isalpha(w[n]) => isupper(w[n])

\* lines 222 and 227: len(res_list)-1 (the variant records the word before)
closeIndexMut(rl) == Len(rl) - 2
closeIndex(rl) == Len(rl) - 1

\* line 216-217: the word is looked at as a possible end of sentence
boundaryChecked(w, ttl) == ~allCaps(w) /\ w \notin ttl

\* lines 209-229: the first half of one pass of the loop, up to the break test
iterTop(rl0, sl0, sn0, si0, kl, ttl) ==
    LET lookup == lastN(rl0, kl)
        sl1 == sl0 + 1
        rl == IF sl1 = 1 THEN [rl0 EXCEPT ![Len(rl0)] = capitalize(@)] ELSE rl0
        last == rl[Len(rl)]
        checked == boundaryChecked(last, ttl)
        ends == last[Len(last)] \in {".", "!", "?"}
        closes == checked /\ (ends \/ sl1 >= SentenceCap)
    IN  [lookup |-> lookup,
         rl |-> rl,
         sl |-> IF closes THEN 0 ELSE sl1,
         sn |-> IF closes THEN sn0 - 1 ELSE sn0,
         si |-> IF closes THEN Append(si0, closeIndex(rl)) ELSE si0,
         brk |-> checked /\ (IF closes THEN sn0 - 1 ELSE sn0) <= 0]

\* lines 237-241: keys sharing one of the first key_len-1 words, in table order,
\* once for every position that agrees
RECURSIVE candidatesFrom(_, _, _)
candidatesFrom(ks, lookup, kl) ==
    IF ks = <<>> THEN <<>>
    ELSE LET k == ks[1]
             hits == Cardinality({n \in 1..(kl - 1) : lookup[n] = k[n]})
         IN  [n \in 1..hits |-> k] \o candidatesFrom(Tail(ks), lookup, kl)

\* line 240: prompt[i] is read for every i in range(key_len-1)
scanOutOfRange(lookup, kl) == kl - 1 > Len(lookup)

\* lines 250-262
formatResponse(rl, si, sb) ==
    IF sb = 0 THEN join(<<" ">>, rl)
    ELSE join(<<"\n">>,
              [j \in 1..Len(si) |->
                  join(<<" ">>, IF j = 1 THEN SubSeq(rl, 1, si[1] + 1)
                                ELSE SubSeq(rl, si[j - 1] + 2, si[j] + 1))])

\* lines 200-203 on an empty table: sets.keys()[0] raises IndexError
RespondStartRaise ==
    /\ pc = "call"
    /\ keys = <<>>
    /\ prompt' \in (IF Len(prompt) = 0 THEN choose(<<ItIs, ItWas>>) ELSE {prompt})
    /\ pc' = "raised"
    /\ UNCHANGED <<text, tokens, titles, sets, length, i, key, mainVars, count,
                   sent_breaks, rnd, keys, key_len, res_list, sentence_length,
                   sentences, sentence_indices, response>>

\* lines 200-206
RespondStart ==
    /\ pc = "call"
    /\ keys # <<>>
    /\ prompt' \in (IF Len(prompt) = 0 THEN choose(<<ItIs, ItWas>>) ELSE {prompt})
    /\ key_len' = keyLenOf(keys)
    /\ res_list' = seedWords(prompt', key_len')
    /\ sentence_length' = key_len'
    /\ sentence_indices' = <<>>
    /\ pc' = "loop"
    /\ UNCHANGED <<text, tokens, titles, sets, length, i, key, mainVars, count,
                   sent_breaks, rnd, keys, sentences, response>>

respFrame == <<text, tokens, titles, sets, length, i, key, mainVars, prompt, count,
               sent_breaks, rnd, keys, key_len>>

\* line 216 on an empty res_list: res_list[-1] raises IndexError
RespondRaiseEmpty ==
    /\ pc = "loop"
    /\ res_list = <<>>
    /\ sentence_length' = sentence_length + 1
    /\ pc' = "raised"
    /\ UNCHANGED <<respFrame, res_list, sentences, sentence_indices, response>>

\* lines 209-229 then 250-262: the pass that breaks out of the loop and returns
RespondBreak ==
    /\ pc = "loop"
    /\ res_list # <<>>
    /\ LET t == iterTop(res_list, sentence_length, sentences, sentence_indices,
                        key_len, titles)
       IN  /\ t.brk
           /\ res_list' = t.rl
           /\ sentence_length' = t.sl
           /\ sentences' = t.sn
           /\ sentence_indices' = t.si
           /\ response' = formatResponse(t.rl, t.si, sent_breaks)
    /\ pc' = "done"
    /\ UNCHANGED respFrame

\* the rest of a pass that appends the word tok
appendWord(t, tok) ==
    /\ Len(res_list) < MaxTokens
    /\ res_list' = Append(t.rl, tok)
    /\ sentence_length' = t.sl
    /\ sentences' = t.sn
    /\ sentence_indices' = t.si
    /\ UNCHANGED <<pc, respFrame, response>>

\* lines 209-232: exact match
RespondExact ==
    /\ pc = "loop"
    /\ res_list # <<>>
    /\ LET t == iterTop(res_list, sentence_length, sentences, sentence_indices,
                        key_len, titles)
       IN  /\ ~t.brk
           /\ t.lookup \in DOMAIN sets
           /\ \E tok \in choose(sets[t.lookup]) : appendWord(t, tok)

\* lines 209-229, 233-240: the partial-match scan reads past the end of the key
RespondRaiseScan ==
    /\ pc = "loop"
    /\ res_list # <<>>
    /\ LET t == iterTop(res_list, sentence_length, sentences, sentence_indices,
                        key_len, titles)
       IN  /\ ~t.brk
           /\ t.lookup \notin DOMAIN sets
           /\ scanOutOfRange(t.lookup, key_len)
           /\ res_list' = t.rl
           /\ sentence_length' = t.sl
           /\ sentences' = t.sn
           /\ sentence_indices' = t.si
    /\ pc' = "raised"
    /\ UNCHANGED <<respFrame, response>>

\* lines 209-229, 233-244: partial match
RespondPartial ==
    /\ pc = "loop"
    /\ res_list # <<>>
    /\ LET t == iterTop(res_list, sentence_length, sentences, sentence_indices,
                        key_len, titles)
       IN  /\ ~t.brk
           /\ t.lookup \notin DOMAIN sets
           /\ ~scanOutOfRange(t.lookup, key_len)
           /\ LET candidates == candidatesFrom(keys, t.lookup, key_len)
              IN  /\ candidates # <<>>
                  /\ \E k \in choose(candidates) :
                         \E tok \in choose(sets[k]) : appendWord(t, tok)

\* lines 209-229, 233-248: no key matches, a random key is used
RespondRandom ==
    /\ pc = "loop"
    /\ res_list # <<>>
    /\ LET t == iterTop(res_list, sentence_length, sentences, sentence_indices,
                        key_len, titles)
       IN  /\ ~t.brk
           /\ t.lookup \notin DOMAIN sets
           /\ ~scanOutOfRange(t.lookup, key_len)
           /\ candidatesFrom(keys, t.lookup, key_len) = <<>>
           /\ \E k \in choose(keys) :
                  \E tok \in choose(sets[k]) : appendWord(t, tok)

----------------------------------------------------------------------------
(* Specification of the generator: respond on tables built from bounded texts *)

CycleText == <<"a", " ", "I", " ", "I", " ", "a", " ", "I", " ", "I">>
LoopText == <<"a", " ", "I", " ", "I", " ", "I">>
TinyText == <<"a">>
ShortText == <<"a", " ", "b", " ", "c", " ", "d", ".">>

PromptDog == <<"T", "h", "e", " ", "d", "o", "g">>
PromptBlank == <<" ">>
PromptCycle == <<"a", " ", "I">>
PromptLoop == <<"I", " ", "I">>
PromptShort == <<"t", "h", "e">>

RespondSources ==
    {<<DogText, 2>>, <<ShortText, 3>>, <<CycleText, 2>>, <<LoopText, 2>>, <<TinyText, 2>>}

RespondPrompts == {<<>>, PromptBlank, PromptDog, PromptCycle, PromptLoop, PromptShort}

\* the orders in which a dict with the key set S can list its keys (the
\* iteration order of a dict is not fixed by the language)
keyOrders(S) ==
    {ks \in [1..Cardinality(S) -> S] : \A m, n \in 1..Cardinality(S) : ks[m] = ks[n] => m = n}

InitRespond ==
    /\ pc = "call"
    /\ \E src \in RespondSources :
          /\ text = src[1]
          /\ length = src[2]
          /\ tokens = tokenize(text).tokens
          /\ titles = tokenize(text).titles
          /\ sets = build_sets(tokens, length)
    /\ keys \in keyOrders(DOMAIN sets)
    /\ prompt \in RespondPrompts
    /\ count \in 1..MaxSentences
    /\ sentences = count
    /\ sent_breaks \in {0, 1}
    /\ rnd \in {"first", "uniform"}
    /\ i = 0 /\ key = <<>>
    /\ argv = <<>> /\ choice = 0 /\ sources = <<>>
    /\ key_len = 0 /\ res_list = <<>> /\ sentence_length = 0
    /\ sentence_indices = <<>> /\ response = <<>>

NextRespond ==
    \/ RespondStartRaise
    \/ RespondStart
    \/ RespondRaiseEmpty
    \/ RespondBreak
    \/ RespondExact
    \/ RespondRaiseScan
    \/ RespondPartial
    \/ RespondRandom

SpecRespond == InitRespond /\ [][NextRespond]_vars

\* number of words respond has sampled so far
sampled == Len(res_list) - Len(seedWords(prompt, key_len))

\* number of words of the j-th recorded sentence
spanLen(si, j) == IF j = 1 THEN si[1] + 1 ELSE si[j] - si[j - 1]

replaceNewlines(s) == [n \in 1..Len(s) |-> IF s[n] = "\n" THEN " " ELSE s[n]]

DogRan == <<"T", "h", "e", " ", "d", "o", "g", " ", "r", "a", "n", ".">>

\* C1: on a non-empty table the generation loop of respond ends after sampling
\* at most sentenceCount * 120 words, whatever the table, prompt and random
\* choices.
C1_SampledWithinBudget ==
    pc \in {"loop", "done"} => sampled <= count * SentenceCap

\* C2: respond raises if and only if the table has no keys; on a non-empty
\* table it returns a text for every prompt, empty, blank or shorter than the
\* key arity.
C2_RaisesOnlyOnEmptyTable ==
    pc \in {"loop", "done", "raised"} => ((pc = "raised") <=> (DOMAIN sets = {}))

\* C6: every sentence of a returned text, as delimited by the recorded
\* sentence boundaries, has at most 120 words.
C6_SentenceAtMostCap ==
    pc = "done" =>
        \A j \in 1..Len(sentence_indices) : spanLen(sentence_indices, j) <= SentenceCap

C10_BreaksKeepWords ==
    (pc = "done" /\ count >= 1) =>
        /\ replaceNewlines(formatResponse(res_list, sentence_indices, 1))
               = formatResponse(res_list, sentence_indices, 0)
        /\ response = formatResponse(res_list, sentence_indices, sent_breaks)

C10_Witness ==
    /\ pc = "done"
    /\ sent_breaks = 1
    /\ count = 2
    /\ Len(sentence_indices) = 2
    /\ \E n \in 1..Len(response) : response[n] = "\n"
    /\ replaceNewlines(response) = join(<<" ">>, res_list)

----------------------------------------------------------------------------
(* main: the interactive session *)

SatText == <<"T", "h", "e", " ", "d", "o", "g", " ", "s", "a", "t", ".">>
BookSat == <<"T", "h", "e", " ", "d", "o", "g", " ", "s", "a", "t", ".", " ", "E", "N", "D", " ", "O", "F", " ", "i", "t">>
BookGo == <<"G", "o", ".", " ", "W", "e", " ", "r", "a", "n", ".", " ", "x">>
EndMarker == <<" ", "E", "N", "D", " ", "O", "F">>
PromptExact == <<"t", "h", "e", " ", "d", "o", "g">>

NotAFile == "missing"
HelpFlag == "--help"

\* the files of the working directory: name and content
FileNames == {"dog.txt", "sat.txt"}
fileText(name) == IF name = "dog.txt" THEN DogText ELSE SatText
Books == {BookSat, BookGo}
SessionPrompts == {PromptExact, PromptDog, PromptShort, PromptBlank}
SessionCounts == {0, 1}

\* lines 289-293 and 344-348: keys are united, lists concatenated (the variant
\* overwrites an existing key, as dict.update would)
mergeSetsMut(d, new_set) ==
    [k \in DOMAIN d \cup DOMAIN new_set |->
        IF k \in DOMAIN new_set THEN new_set[k] ELSE d[k]]
mergeSets(d, new_set) ==
    [k \in DOMAIN d \cup DOMAIN new_set |->
        IF k \notin DOMAIN d THEN new_set[k]
        ELSE IF k \in DOMAIN new_set THEN d[k] \o new_set[k]
        ELSE d[k]]

\* an order in which the table lists its keys; with the uniform source every
\* order gives the same outcomes
RECURSIVE dictOrder(_)
dictOrder(S) ==
    IF S = {} THEN <<>>
    ELSE LET k == CHOOSE x \in S : TRUE
         IN  <<k>> \o dictOrder(S \ {k})

Init ==
    /\ pc = "start"
    /\ argv \in SeqsUpTo(FileNames \cup {NotAFile, HelpFlag}, MaxArgs)
    /\ tokens = <<>> /\ sets = EmptyDict /\ titles = {}
    /\ choice = 0 /\ sources = <<>>
    /\ text = <<>> /\ length = 0 /\ i = 0 /\ key = <<>>
    /\ NoCall

sessionFrame == <<text, length, i, key, respVars>>

\* lines 275-278: a help flag anywhere on the command line prints the usage and returns
Usage ==
    /\ pc = "start"
    /\ \E n \in 1..Len(argv) : argv[n] = HelpFlag
    /\ pc' = "exit"
    /\ UNCHANGED <<tokens, titles, sets, mainVars, sessionFrame>>

NoUsage ==
    /\ pc = "start"
    /\ \A n \in 1..Len(argv) : argv[n] # HelpFlag
    /\ pc' = "args"
    /\ UNCHANGED <<tokens, titles, sets, mainVars, sessionFrame>>

\* lines 280-294: the next argument; a file is tokenized and merged, anything
\* else is passed over
LoadArg ==
    /\ pc = "args"
    /\ argv # <<>>
    /\ IF argv[1] \in FileNames
       THEN LET r == tokenize(fileText(argv[1]))
                new_set == build_sets(tokens \o r.tokens, 2)
            IN  /\ tokens' = tokens \o r.tokens
                /\ titles' = titles \cup r.titles
                /\ sets' = mergeSets(sets, new_set)
                /\ sources' = Append(sources, r.tokens)
       ELSE UNCHANGED <<tokens, titles, sets, sources>>
    /\ argv' = Tail(argv)
    /\ UNCHANGED <<pc, choice, sessionFrame>>

\* line 296: the menu loop is entered
EnterMenu ==
    /\ pc = "args"
    /\ argv = <<>>
    /\ pc' = "menu"
    /\ UNCHANGED <<tokens, titles, sets, mainVars, sessionFrame>>

\* lines 298-301: generation asked for with nothing parsed
NoBooks ==
    /\ pc = "menu"
    /\ DOMAIN sets = {}
    /\ choice' = 1
    /\ UNCHANGED <<pc, tokens, titles, sets, argv, sources, sessionFrame>>

\* lines 298-312: prompt and count are read and respond is called
Generate ==
    /\ pc = "menu"
    /\ DOMAIN sets # {}
    /\ choice' = 1
    /\ prompt' \in SessionPrompts
    /\ \E c \in SessionCounts : count' = IF c = 0 THEN c + 1 ELSE c
    /\ sentences' = count'
    /\ sent_breaks' = 1
    /\ rnd' = "uniform"
    /\ keys' = dictOrder(DOMAIN sets)
    /\ pc' = "call"
    /\ UNCHANGED <<text, tokens, titles, sets, length, i, key, argv, sources, key_len,
                   res_list, sentence_length, sentence_indices, response>>

\* lines 312-313: the response is printed, the locals of the call are gone
GenerateReturn ==
    /\ pc = "done"
    /\ choice = 1
    /\ pc' = "menu"
    /\ prompt' = <<>> /\ count' = 0 /\ sent_breaks' = 1 /\ rnd' = "uniform"
    /\ keys' = <<>> /\ key_len' = 0 /\ res_list' = <<>> /\ sentence_length' = 0
    /\ sentences' = 0 /\ sentence_indices' = <<>> /\ response' = <<>>
    /\ UNCHANGED <<text, tokens, titles, sets, length, i, key, mainVars>>

\* lines 314-327: the book is not available
DownloadFail ==
    /\ pc = "menu"
    /\ choice' = 2
    /\ UNCHANGED <<pc, tokens, titles, sets, argv, sources, sessionFrame>>

\* lines 186-189 and 314-349: the book is cut at " END OF", tokenized and merged;
\* printing the title and saving the book (lines 333-342, 351-362) touch no variable
Download ==
    /\ pc = "menu"
    /\ Len(sources) < MaxSources
    /\ choice' = 2
    /\ \E book \in Books :
          LET r == tokenize(sliceTo(book, find(book, EndMarker)))
              new_set == build_sets(r.tokens, 2)
          IN  /\ titles' = titles \cup r.titles
              /\ sets' = mergeSets(sets, new_set)
              /\ sources' = Append(sources, r.tokens)
    /\ UNCHANGED <<pc, tokens, argv, sessionFrame>>

\* lines 367-372
Reset ==
    /\ pc = "menu"
    /\ choice' = 3
    /\ tokens' = <<>>
    /\ sets' = EmptyDict
    /\ titles' = {}
    /\ sources' = <<>>
    /\ UNCHANGED <<pc, argv, sessionFrame>>

\* lines 374-375
Exit ==
    /\ pc = "menu"
    /\ choice' = 4
    /\ pc' = "exit"
    /\ UNCHANGED <<tokens, titles, sets, argv, sources, sessionFrame>>

Next ==
    \/ Usage
    \/ NoUsage
    \/ LoadArg
    \/ EnterMenu
    \/ NoBooks
    \/ Generate
    \/ RespondStart
    \/ RespondRaiseEmpty
    \/ RespondBreak
    \/ RespondExact
    \/ RespondPartial
    \/ RespondRandom
    \/ GenerateReturn
    \/ DownloadFail
    \/ Download
    \/ Reset
    \/ Exit

Spec == Init /\ [][Next]_vars

RECURSIVE mergeAll(_)
mergeAll(srcs) ==
    IF srcs = <<>> THEN EmptyDict
    ELSE mergeSets(mergeAll(SubSeq(srcs, 1, Len(srcs) - 1)),
                   build_sets(srcs[Len(srcs)], 2))

isPrefix(s, t) == Len(s) <= Len(t) /\ SubSeq(t, 1, Len(s)) = s

\* C4: after the sources loaded since the last reset, the accumulated table is
\* the merge, in load order, of the tables built once from each source's own
\* tokens.
C4_TableIsMergeOfSources ==
    sets = mergeAll(sources)

keysWellFormed ==
    \A k \in DOMAIN sets : Len(k) = 2 /\ sets[k] # <<>>

mergeOnlyGrows ==
    \/ \A k \in DOMAIN sets : k \in DOMAIN sets' /\ isPrefix(sets[k], sets'[k])
    \/ /\ choice' = 3
       /\ DOMAIN sets' = {}

\* C9: in every state of the session every key of the accumulated table has
\* exactly 2 tokens and a non-empty candidate list; no step removes a key or
\* shortens a list, except a reset, which removes all keys at once.
C9_TableInvariant ==
    []keysWellFormed /\ [][mergeOnlyGrows]_vars

C9_Witness ==
    /\ pc = "menu"
    /\ choice = 2
    /\ Len(sources) = 2
    /\ keysWellFormed
    /\ \E k \in DOMAIN sets : Len(sets[k]) >= 2

====
